---- MODULE Spec2Model ----
(***************************************************************************)
(* State-machine model of static/js/dashboard.js: the dashboard page's    *)
(* module-level state, the DOM regions it writes, its renderers and its    *)
(* asynchronous handlers (initial load, time-range reload, recommendations *)
(* load, refresh cooldown, preview playback).                              *)
(*                                                                         *)
(* JavaScript runs each handler and each continuation after an await to    *)
(* completion, so every action below is one such run.  Network responses,  *)
(* user clicks, timer expiry and the end of an audio clip are the inputs.  *)
(***************************************************************************)
EXTENDS Integers, Sequences, FiniteSets, TLC

VARIABLES
    currentTimeRange,   \* module-level `currentTimeRange`
    genreChart,         \* module-level `genreChart`: index into charts, 0 = null
    charts,             \* every Chart instance constructed so far
    dom,                \* the DOM regions the script reads or writes
    loadPc,             \* loadDashboard: "fetching" | "loaded" | "error"
    loadLog,            \* the calls loadDashboard has made, in order
    reloads,            \* timeRange of each reloadWithTimeRange call awaiting its fetches
    reloadsStarted,     \* reloadWithTimeRange calls made so far
    recInFlight,        \* loadRecommendations calls awaiting their fetch
    recStarted,         \* loadRecommendations calls made so far
    console,            \* the latest console.error entry
    now,                \* the clock (ms since the page was opened)
    timers,             \* deadlines of the pending setTimeout callbacks
    refreshClicks,      \* times (ms) of the refresh clicks handled so far
    currentAudio,       \* `currentAudio` of the listeners of the grid's buttons
    audios,             \* every Audio object constructed so far
    lastArgs,           \* last argument each renderer was called with
    lastReload          \* the reloadWithTimeRange call that rendered last

vars == <<currentTimeRange, genreChart, charts, dom, loadPc, loadLog, reloads, reloadsStarted,
          reloadsStarted,
          recInFlight, recStarted, console, now, timers, refreshClicks,
          currentAudio, audios, lastArgs, lastReload>>

\* JavaScript null / undefined / missing optional field
Null == "null"

----------------------------------------------------------------------------
(* Bounds of the model                                                      *)

\* reloadWithTimeRange calls (time-range button clicks)
MaxReloads == 2
\* loadRecommendations calls
MaxRecLoads == 3
\* Audio objects constructed
MaxAudios == 3
\* Chart instances constructed (renderer harness)
MaxCharts == 3
\* the clock stops advancing here
MaxTime == 10000
\* the clock advances in steps of this many ms
TickMs == 2500

(* Program constants                                                        *)

\* setTimeout(..., 5000)
Cooldown == 5000
\* entries.slice(0, 10)
TopGenres == 10

----------------------------------------------------------------------------
(* Data the backend can send                                                *)

Ranges == {"short_term", "medium_term", "long_term"}

ArtistA == [name |-> "Rosalia", image |-> "rosalia.jpg", followers |-> 2300000,
            spotify_url |-> "spotify:artist:a"]
ArtistB == [name |-> "Bizarrap", image |-> Null, followers |-> 1450,
            spotify_url |-> Null]
ArtistLists == {<< >>, <<ArtistA>>, <<ArtistB, ArtistA>>}

\* played_at: <<ms>> relative to the page opening, << >> when missing
TrackA == [name |-> "Despecha", artist |-> "Rosalia", image |-> "despecha.jpg",
           popularity |-> 87, spotify_url |-> "spotify:track:a", played_at |-> <<-90000>>]
TrackB == [name |-> "Quedate", artist |-> "Bizarrap", image |-> Null,
           popularity |-> 0, spotify_url |-> Null, played_at |-> <<-10800000>>]
TrackC == [name |-> "Malamente", artist |-> "Rosalia", image |-> Null,
           popularity |-> 60, spotify_url |-> Null, played_at |-> << >>]
TrackLists == {<< >>, <<TrackA>>, <<TrackB, TrackA>>}
RecentLists == {<< >>, <<TrackA, TrackB, TrackC>>}

\* Object.entries(genre_distribution), in the object's insertion order
GenreNames == <<"pop", "rock", "indie", "trap", "jazz", "folk", "soul", "funk",
                "punk", "house", "techno">>
ManyGenres == [i \in 1..Len(GenreNames) |-> <<GenreNames[i], 12 - i>>]
GenreInputs == {<< >>, <<<<"pop", 3>>>>, <<<<"rock", 2>>, <<"pop", 1>>>>, ManyGenres}

ProfileA == [name |-> "German", email |-> "g@example.com", id |-> "german",
             image |-> "me.jpg", product |-> "premium", country |-> "ES",
             followers |-> 999]
ProfileB == [name |-> Null, email |-> Null, id |-> "u2", image |-> Null,
             product |-> "free", country |-> Null, followers |-> 0]

SummaryA == [profile |-> ProfileA, top_artists |-> <<ArtistA, ArtistB>>,
             top_tracks |-> <<TrackA, TrackB>>,
             genre_distribution |-> <<<<"pop", 3>>, <<"rock", 1>>>>,
             recent_tracks |-> <<TrackA, TrackB, TrackC>>]
SummaryB == [profile |-> ProfileB, top_artists |-> << >>, top_tracks |-> << >>,
             genre_distribution |-> << >>, recent_tracks |-> << >>]
SummaryC == [profile |-> ProfileA, top_artists |-> <<ArtistB>>,
             top_tracks |-> <<TrackB>>, genre_distribution |-> ManyGenres,
             recent_tracks |-> <<TrackC>>]
Summaries == {SummaryA, SummaryB, SummaryC}

RecA == [name |-> "Saoko", artist |-> "Rosalia", image |-> "saoko.jpg",
         explanation |-> "similar energy", preview_url |-> "p1",
         spotify_url |-> "spotify:track:r1"]
RecB == [name |-> "Bzrp 52", artist |-> "Bizarrap", image |-> Null,
         explanation |-> "same genre", preview_url |-> "p2", spotify_url |-> Null]
\* another track served from the same preview clip as RecA
RecC == [name |-> "Saoko (remix)", artist |-> "Rosalia", image |-> Null,
         explanation |-> "you liked Saoko", preview_url |-> "p1", spotify_url |-> Null]
RecD == [name |-> "Candy", artist |-> "Rosalia", image |-> Null,
         explanation |-> "popular", preview_url |-> Null, spotify_url |-> Null]

\* bodies of /api/recommendations; recommendations << >> also stands for a
\* missing `recommendations` field (both take the same branch at line 230)
RecData == {
    [profile_description |-> "explorer", recommendations |-> <<RecA, RecB>>],
    [profile_description |-> Null,       recommendations |-> <<RecA, RecC, RecD>>],
    [profile_description |-> "fan",      recommendations |-> << >>],
    [profile_description |-> Null,       recommendations |-> << >>] }

----------------------------------------------------------------------------
(* Formatters                                                               *)

\* 2^j
RECURSIVE Pow2(_)
Pow2(j) == IF j = 0 THEN 1 ELSE 2 * Pow2(j - 1)

\* floor(log2(n / unit)), the binary exponent of the double n / unit
\* (n >= 1, and n / unit >= 1/32 wherever a decimal tie is possible)
RECURSIVE Log2Up(_, _)
Log2Up(q, e) == IF q < 2 THEN e ELSE Log2Up(q \div 2, e + 1)
RECURSIVE Log2Down(_, _, _)
Log2Down(n, unit, e) == IF n >= unit \/ e = -5 THEN e ELSE Log2Down(2 * n, unit, e - 1)
Exponent(n, unit) == IF n >= unit THEN Log2Up(n \div unit, 0) ELSE Log2Down(n, unit, 0)

\* whether the double nearest to m/20 (m odd, not a multiple of 5, exponent e)
\* lies above m/20: the 53-bit significand is the integer nearest to
\* m * 2^(50-e) / 5, so the remainder of m * 2^(50-e) modulo 5 decides
\* (2^j mod 5 has period 4)
DoubleIsAbove(m, e) == ((m % 5) * (Pow2((50 - e) % 4) % 5)) % 5 >= 3

\* (n / unit).toFixed(1): the tenths nearest to the exact value of the double
\* n / unit.  Where 10n/unit is k + 1/2 the double is exact only for
\* quarters (half rounds up); otherwise the double lies above or below the
\* quotient, and that decides.
toFixed1(n, unit) ==
    LET r   == 10 * (n % unit)
        k   == 10 * (n \div unit) + (r \div unit)
        m   == 2 * k + 1
        t   == IF 2 * (r % unit) = unit
                 THEN IF m % 5 = 0 \/ DoubleIsAbove(m, Exponent(n, unit)) THEN k + 1 ELSE k
               ELSE IF 2 * (r % unit) > unit THEN k + 1 ELSE k
    IN  [whole |-> t \div 10, tenth |-> t % 10]

\* suffix "" is n.toString(): no decimal is printed
formatNumber(n) ==
    IF n >= 1000000
      THEN [whole |-> toFixed1(n, 1000000).whole, tenth |-> toFixed1(n, 1000000).tenth,
            suffix |-> "M"]
    ELSE IF n >= 1000
      THEN [whole |-> toFixed1(n, 1000).whole, tenth |-> toFixed1(n, 1000).tenth,
            suffix |-> "K"]
    ELSE [whole |-> n, tenth |-> 0, suffix |-> ""]

\* `hace ${n}m|h|d`; << >> is the empty string
timeAgo(isoString, t) ==
    IF isoString = << >> THEN << >>
    ELSE LET diff == t - isoString[1]
             mins == diff \div 60000
             hrs  == mins \div 60
         IN  IF mins < 60 THEN <<"hace", mins, "m">>
             ELSE IF hrs < 24 THEN <<"hace", hrs, "h">>
             ELSE <<"hace", hrs \div 24, "d">>

----------------------------------------------------------------------------
(* API client                                                               *)

NoErr == [message |-> "", status |-> 0, url |-> << >>]

\* what fetch(url) settles with: a response with a status and a body that is
\* JSON (body = what res.json() parses it to) or is not, or a rejection
\* (transport failure)
Response(status, body) ==
    [kind |-> "response", status |-> status, json |-> TRUE, body |-> body]
NotJson(status) ==
    [kind |-> "response", status |-> status, json |-> FALSE, body |-> << >>]
TransportFailure == [kind |-> "rejected", status |-> 0, json |-> FALSE, body |-> << >>]

\* new Error(`Error ${res.status} en ${url}`)
HttpError(status, url) == [message |-> "Error <status> en <url>", status |-> status, url |-> url]
\* the TypeError fetch() rejects with: the runtime's text, no status, no URL
FetchTypeError == [message |-> "Failed to fetch", status |-> 0, url |-> << >>]
\* the SyntaxError res.json() rejects with: the parser's text, no status, no URL
JsonSyntaxError == [message |-> "Unexpected token", status |-> 0, url |-> << >>]

\* apiFetch(url) given what fetch settled with: the parsed body, or the error thrown
apiFetch(url, settled) ==
    IF settled.kind = "rejected"
      THEN [ok |-> FALSE, data |-> << >>, err |-> FetchTypeError]
    ELSE IF ~(settled.status >= 200 /\ settled.status <= 299)
      THEN [ok |-> FALSE, data |-> << >>, err |-> HttpError(settled.status, url)]
    ELSE IF ~settled.json
      THEN [ok |-> FALSE, data |-> << >>, err |-> JsonSyntaxError]
    ELSE [ok |-> TRUE, data |-> settled.body, err |-> NoErr]

SummaryUrl == <<"/api/dashboard/summary">>
RecommendationsUrl == <<"/api/recommendations">>
ArtistsUrl(timeRange) == <<"/api/top/artists?time_range=", timeRange, "&limit=10">>
TracksUrl(timeRange) == <<"/api/top/tracks?time_range=", timeRange, "&limit=10">>

\* the ways a fetch can fail
Failures == {Response(500, << >>), NotJson(200), TransportFailure}

----------------------------------------------------------------------------
(* The DOM                                                                  *)

\* content the served page has before the script writes it
Markup == "markup"

Min(a, b) == IF a < b THEN a ELSE b

RemoveAt(seq, i) == SubSeq(seq, 1, i - 1) \o SubSeq(seq, i + 1, Len(seq))

NoGrid == [kind |-> "markup", cards |-> << >>, err |-> NoErr]

\* the document as served: nothing written yet
InitialDom ==
    [ loadingDisplay      |-> Markup,
      dashboardDisplay    |-> Markup,
      loadingScreen       |-> [kind |-> "markup", err |-> NoErr, link |-> ""],
      greeting            |-> <<Markup>>,
      userAvatar          |-> Markup,
      profileAvatar       |-> Markup,
      profileName         |-> Markup,
      profileMeta         |-> Markup,
      profilePlan         |-> Markup,
      profileCountry      |-> Markup,
      statFollowers       |-> [whole |-> 0, tenth |-> 0, suffix |-> Markup],
      artistsGrid         |-> << >>,
      statTopArtist       |-> Markup,
      tracksList          |-> << >>,
      statTopTrack        |-> Markup,
      statTopGenre        |-> Markup,
      genresList          |-> << >>,
      recentList          |-> << >>,
      recommendationsGrid |-> NoGrid,
      profileDescription  |-> <<Markup>>,
      playing             |-> {},       \* preview buttons of the grid with class 'playing'
      activeTimeBtn       |-> Markup,   \* the .time-btn with class 'active'
      refreshDisabled     |-> FALSE ]

setLoading(d, loading) ==
    [d EXCEPT !.loadingDisplay   = IF loading THEN "flex" ELSE "none",
              !.dashboardDisplay = IF loading THEN "none" ELSE "block"]

----------------------------------------------------------------------------
(* Renderers                                                                *)

renderProfile(d, profile) ==
    LET avatar == IF profile.image # Null THEN profile.image
                  ELSE "https://via.placeholder.com/72"
    IN  [d EXCEPT !.greeting       = <<"Hola, ", profile.name>>,
                  !.userAvatar     = avatar,
                  !.profileAvatar  = avatar,
                  !.profileName    = IF profile.name # Null THEN profile.name ELSE "-",
                  !.profileMeta    = IF profile.email # Null THEN profile.email
                                     ELSE IF profile.id # Null THEN profile.id ELSE "-",
                  !.profilePlan    = IF profile.product = "premium" THEN "Premium" ELSE "Free",
                  !.profileCountry = IF profile.country # Null THEN profile.country ELSE "-"]

ArtistCard(artist, i) ==
    [ href      |-> IF artist.spotify_url # Null THEN artist.spotify_url ELSE "#",
      img       |-> IF artist.image # Null THEN artist.image ELSE "placeholder",
      name      |-> artist.name,
      rank      |-> i,
      followers |-> formatNumber(artist.followers) ]

renderTopArtists(d, artists) ==
    [d EXCEPT !.artistsGrid   = [i \in 1..Len(artists) |-> ArtistCard(artists[i], i)],
              !.statTopArtist = IF Len(artists) > 0 THEN artists[1].name ELSE @]

TrackItem(track, i) ==
    [ num    |-> i,
      img    |-> IF track.image # Null THEN track.image ELSE "placeholder",
      name   |-> track.name,
      artist |-> track.artist,
      pop    |-> track.popularity,
      link   |-> track.spotify_url ]

renderTopTracks(d, tracks) ==
    [d EXCEPT !.tracksList   = [i \in 1..Len(tracks) |-> TrackItem(tracks[i], i)],
              !.statTopTrack = IF Len(tracks) > 0 THEN tracks[1].name ELSE @]

GenreItem(entry, i) == [idx |-> i, name |-> entry[1], count |-> entry[2]]

\* new Chart(ctx, {labels, data}) on the top entries
NewChart(top) ==
    [ alive  |-> TRUE,
      labels |-> [i \in 1..Len(top) |-> top[i][1]],
      data   |-> [i \in 1..Len(top) |-> top[i][2]] ]

\* renderGenres without `if (genreChart) genreChart.destroy()`
DestroyNothing(ch, gc) == ch

\* genreChart.destroy()
Destroy(ch, gc) == IF gc # 0 THEN [ch EXCEPT ![gc].alive = FALSE] ELSE ch

\* entries = Object.entries(genres); gc, ch = genreChart and the instances so far
renderGenres(d, gc, ch, entries) ==
    IF Len(entries) = 0
      THEN [dom |-> d, genreChart |-> gc, charts |-> ch]
      ELSE LET top == SubSeq(entries, 1, Min(TopGenres, Len(entries)))
               ch2 == Append(Destroy(ch, gc), NewChart(top))
           IN  [ dom |-> [d EXCEPT !.statTopGenre = entries[1][1],
                                   !.genresList   = [i \in 1..Len(top) |-> GenreItem(top[i], i)]],
                 genreChart |-> Len(ch2),
                 charts     |-> ch2 ]

RecentItem(track, t) ==
    [ img    |-> IF track.image # Null THEN track.image ELSE "placeholder",
      name   |-> track.name,
      artist |-> track.artist,
      time   |-> timeAgo(track.played_at, t) ]

\* t = Date.now() at the call
renderRecentTracks(d, tracks, t) ==
    [d EXCEPT !.recentList = [i \in 1..Len(tracks) |-> RecentItem(tracks[i], t)]]

renderStats(d, profile) ==
    [d EXCEPT !.statFollowers = formatNumber(profile.followers)]

RecCard(track) ==
    [ img         |-> IF track.image # Null THEN track.image ELSE "placeholder",
      name        |-> track.name,
      artist      |-> track.artist,
      explanation |-> track.explanation,
      preview     |-> track.preview_url,     \* Null: the card has no preview button
      spotify     |-> track.spotify_url ]

\* replacing the grid's content takes its buttons out of the document: the
\* Audio objects they started play on, their buttons are no longer in the grid
Detach(au) == [i \in 1..Len(au) |-> [au[i] EXCEPT !.attached = FALSE]]

\* the message shown in place of an empty grid
EmptyState == [kind |-> "empty", cards |-> << >>, err |-> NoErr]

\* ca, au = the `currentAudio` of the grid's listeners and the Audio objects so far
renderRecommendations(d, ca, au, data) ==
    LET d1 == [d EXCEPT !.playing = {},
                        !.profileDescription =
                            IF data.profile_description # Null
                              THEN <<"Tu perfil: ", data.profile_description>> ELSE @]
    IN  IF Len(data.recommendations) = 0
          THEN [ dom |-> [d1 EXCEPT !.recommendationsGrid = EmptyState],
                 currentAudio |-> ca,
                 audios       |-> Detach(au) ]
          ELSE [ dom |-> [d1 EXCEPT !.recommendationsGrid =
                            [kind  |-> "cards",
                             cards |-> [i \in 1..Len(data.recommendations) |->
                                           RecCard(data.recommendations[i])],
                             err   |-> NoErr]],
                 currentAudio |-> 0,          \* let currentAudio = null
                 audios       |-> Detach(au) ]

----------------------------------------------------------------------------
(* Recommendations load                                                     *)

Spinner == [kind |-> "spinner", cards |-> << >>, err |-> NoErr]

\* loadRecommendations up to its await: the spinner replaces the grid
loadRecommendationsStart(d) ==
    [d EXCEPT !.recommendationsGrid = Spinner, !.playing = {}]

\* a catch that writes nothing
loadRecommendationsCatchSilent(d, err) == d

\* loadRecommendations' catch
loadRecommendationsCatch(d, err) ==
    [d EXCEPT !.recommendationsGrid = [kind |-> "error", cards |-> << >>, err |-> err],
              !.playing = {}]

----------------------------------------------------------------------------
(* Initial load                                                             *)

\* the try block with the recommendations requested before the page is shown
loadDashboardBodyRecsFirst ==
    <<"renderProfile", "renderStats", "renderTopArtists", "renderTopTracks",
      "renderGenres", "renderRecentTracks", "loadRecommendations", "setLoading(false)">>

\* the statements of loadDashboard's try block after the await, in order
loadDashboardBody ==
    <<"renderProfile", "renderStats", "renderTopArtists", "renderTopTracks",
      "renderGenres", "renderRecentTracks", "setLoading(false)", "loadRecommendations">>

\* one statement of the body, run on st = [dom, genreChart, charts, audios,
\* recIssued, log]; the log keeps, for each call, what the page showed when
\* the call was made
RunStatement(st, stmt, data, t) ==
    LET logged == [st EXCEPT !.log = Append(@, [call |-> stmt,
                                                dashboardDisplay |-> st.dom.dashboardDisplay])]
    IN  CASE stmt = "renderProfile" ->
               [logged EXCEPT !.dom = renderProfile(st.dom, data.profile)]
          [] stmt = "renderStats" ->
               [logged EXCEPT !.dom = renderStats(st.dom, data.profile)]
          [] stmt = "renderTopArtists" ->
               [logged EXCEPT !.dom = renderTopArtists(st.dom, data.top_artists)]
          [] stmt = "renderTopTracks" ->
               [logged EXCEPT !.dom = renderTopTracks(st.dom, data.top_tracks)]
          [] stmt = "renderGenres" ->
               LET g == renderGenres(st.dom, st.genreChart, st.charts, data.genre_distribution)
               IN  [logged EXCEPT !.dom = g.dom, !.genreChart = g.genreChart,
                                  !.charts = g.charts]
          [] stmt = "renderRecentTracks" ->
               [logged EXCEPT !.dom = renderRecentTracks(st.dom, data.recent_tracks, t)]
          [] stmt = "setLoading(false)" ->
               [logged EXCEPT !.dom = setLoading(st.dom, FALSE)]
          [] stmt = "loadRecommendations" ->
               [logged EXCEPT !.dom = loadRecommendationsStart(st.dom),
                              !.audios = Detach(st.audios),
                              !.recIssued = @ + 1]

RECURSIVE RunBody(_, _, _, _)
RunBody(st, body, data, t) ==
    IF body = << >> THEN st
    ELSE RunBody(RunStatement(st, Head(body), data, t), Tail(body), data, t)

\* a catch that also leaves the loading state, as a `finally` would
loadDashboardCatchThenShow(d, err) ==
    setLoading([d EXCEPT !.loadingScreen = [kind |-> "error", err |-> err, link |-> "/"]],
               FALSE)

\* loadDashboard's catch
loadDashboardCatch(d, err) ==
    [d EXCEPT !.loadingScreen = [kind |-> "error", err |-> err, link |-> "/"]]

NoLog == [text |-> "", err |-> NoErr]
\* timeRange: the call's range; selected: currentTimeRange when it rendered;
\* over: the range of the call that had rendered before it; artists, tracks:
\* what it rendered
NoReload == [timeRange |-> "none", selected |-> "medium_term", over |-> "none",
             artists |-> << >>, tracks |-> << >>]

\* click: the preview button clicked last, 0 = none
NoArgs == [artists |-> << >>, tracks |-> << >>, genres |-> << >>, recent |-> << >>,
           recs |-> << >>, click |-> 0]

\* the page once the script has run to loadDashboard's await
Init ==
    /\ currentTimeRange = "medium_term"
    /\ genreChart = 0
    /\ charts = << >>
    /\ dom = setLoading(InitialDom, TRUE)
    /\ loadPc = "fetching"
    /\ loadLog = << >>
    /\ reloads = << >>
    /\ reloadsStarted = 0
    /\ recInFlight = 0
    /\ recStarted = 0
    /\ console = NoLog
    /\ now = 0
    /\ timers = << >>
    /\ refreshClicks = << >>
    /\ currentAudio = 0
    /\ audios = << >>
    /\ lastArgs = NoArgs
    /\ lastReload = NoReload

\* the summary fetch settles and loadDashboard runs to its end
SummarySettles(settled) ==
    /\ loadPc = "fetching"
    /\ LET r == apiFetch(SummaryUrl, settled)
           st == RunBody([dom |-> dom, genreChart |-> genreChart, charts |-> charts,
                          audios |-> audios, recIssued |-> 0, log |-> << >>],
                         loadDashboardBody, r.data, now)
       IN  IF r.ok
             THEN /\ dom' = st.dom
                  /\ genreChart' = st.genreChart
                  /\ charts' = st.charts
                  /\ audios' = st.audios
                  /\ recInFlight' = recInFlight + st.recIssued
                  /\ recStarted' = recStarted + st.recIssued
                  /\ loadLog' = st.log
                  /\ loadPc' = "loaded"
                  /\ lastArgs' = [lastArgs EXCEPT !.artists = <<r.data.top_artists>>,
                                                  !.tracks = <<r.data.top_tracks>>,
                                                  !.genres = <<r.data.genre_distribution>>,
                                                  !.recent = <<r.data.recent_tracks, now>>]
                  /\ UNCHANGED console
             ELSE /\ console' = [text |-> "Error cargando el dashboard:", err |-> r.err]
                  /\ dom' = loadDashboardCatch(dom, r.err)
                  /\ loadPc' = "error"
                  /\ UNCHANGED <<genreChart, charts, audios, recInFlight, recStarted,
                                 loadLog, lastArgs>>
    /\ UNCHANGED <<currentTimeRange, reloads, reloadsStarted, now, timers, refreshClicks, currentAudio,
                   lastReload>>

\* the recommendations fetch of one pending loadRecommendations settles
RecFetchSettles(settled) ==
    /\ recInFlight > 0
    /\ recInFlight' = recInFlight - 1
    /\ LET r == apiFetch(RecommendationsUrl, settled)
           rr == renderRecommendations(dom, currentAudio, audios, r.data)
       IN  IF r.ok
             THEN /\ dom' = rr.dom
                  /\ currentAudio' = rr.currentAudio
                  /\ audios' = rr.audios
                  /\ lastArgs' = [lastArgs EXCEPT !.recs = <<r.data>>]
             ELSE /\ dom' = loadRecommendationsCatch(dom, r.err)
                  /\ audios' = Detach(audios)
                  /\ UNCHANGED <<currentAudio, lastArgs>>
    /\ UNCHANGED <<currentTimeRange, genreChart, charts, loadPc, loadLog, reloads, reloadsStarted,
                   recStarted, console, now, timers, refreshClicks, lastReload>>

----------------------------------------------------------------------------
(* Refresh button                                                           *)

\* a listener that leaves the button enabled
refreshHandlerNoDisable(d) == d

\* the click listener's own statements, before loadRecommendations()
refreshHandler(d) == [d EXCEPT !.refreshDisabled = TRUE]

\* a click on the refresh button; a disabled button dispatches no click
RefreshClick ==
    /\ ~dom.refreshDisabled
    /\ recStarted < MaxRecLoads
    /\ dom' = loadRecommendationsStart(refreshHandler(dom))
    /\ timers' = Append(timers, now + Cooldown)
    /\ audios' = Detach(audios)
    /\ recInFlight' = recInFlight + 1
    /\ recStarted' = recStarted + 1
    /\ refreshClicks' = Append(refreshClicks, now)
    /\ UNCHANGED <<currentTimeRange, genreChart, charts, loadPc, loadLog, reloads, reloadsStarted,
                   console, now, currentAudio, lastArgs, lastReload>>

\* a setTimeout callback runs, no sooner than its delay
TimerFires(i) ==
    /\ i \in 1..Len(timers)
    /\ now >= timers[i]
    /\ dom' = [dom EXCEPT !.refreshDisabled = FALSE]
    /\ timers' = RemoveAt(timers, i)
    /\ UNCHANGED <<currentTimeRange, genreChart, charts, loadPc, loadLog, reloads, reloadsStarted,
                   recInFlight, recStarted, console, now, refreshClicks, currentAudio,
                   audios, lastArgs, lastReload>>

\* time passes
Tick ==
    /\ now + TickMs <= MaxTime
    /\ now' = now + TickMs
    /\ UNCHANGED <<currentTimeRange, genreChart, charts, dom, loadPc, loadLog, reloads, reloadsStarted,
                   recInFlight, recStarted, console, timers, refreshClicks, currentAudio,
                   audios, lastArgs, lastReload>>

----------------------------------------------------------------------------
(* Time-range reload                                                        *)

\* the state of one of the two apiFetch promises when Promise.all settles
Fulfilled(body) == [state |-> "ok", data |-> body, err |-> NoErr]
StillPending == [state |-> "pending", data |-> << >>, err |-> NoErr]

\* Promise.all([a, b]): rejected as soon as one is, fulfilled once both are
PromiseAll(a, b) ==
    IF a.state = "failed" \/ b.state = "failed" THEN "rejected"
    ELSE IF a.state = "ok" /\ b.state = "ok" THEN "fulfilled"
    ELSE "pending"

\* two awaits in a row, each followed by its render, in place of Promise.all
reloadResumeSequential(d, timeRange, selected, a, t) ==
    IF a.state # "ok" THEN d
    ELSE IF t.state # "ok" THEN renderTopArtists(d, a.data.artists)
    ELSE renderTopTracks(renderTopArtists(d, a.data.artists), t.data.tracks)

\* a call that drops its result when its range is no longer the selected one
reloadResumeIfSelected(d, timeRange, selected, a, t) ==
    IF a.state = "ok" /\ t.state = "ok" /\ timeRange = selected
      THEN renderTopTracks(renderTopArtists(d, a.data.artists), t.data.tracks)
      ELSE d

\* reloadWithTimeRange(timeRange) after its await, given the two promises a
\* (artists) and t (tracks) as they are when Promise.all settles, and the
\* value currentTimeRange has by then: the try block's two renders when
\* Promise.all fulfilled, nothing on the page when it rejected.  Neither
\* timeRange nor currentTimeRange is read.
reloadResume(d, timeRange, selected, a, t) ==
    IF PromiseAll(a, t) = "fulfilled"
      THEN renderTopTracks(renderTopArtists(d, a.data.artists), t.data.tracks)
      ELSE d

\* a click on the time-range button of range r, reloadWithTimeRange(r) run to
\* its await
TimeBtnClick(r) ==
    /\ reloadsStarted < MaxReloads
    /\ reloadsStarted' = reloadsStarted + 1
    /\ dom' = [dom EXCEPT !.activeTimeBtn = r]
    /\ currentTimeRange' = r
    /\ reloads' = Append(reloads, r)
    /\ UNCHANGED <<genreChart, charts, loadPc, loadLog, recInFlight, recStarted,
                   console, now, timers, refreshClicks, currentAudio, audios, lastArgs,
                   lastReload>>

\* Promise.all of pending call i settles with the promises a and t in the
\* given states, and the call runs to its end
ReloadSettles(i, a, t) ==
    /\ i \in 1..Len(reloads)
    /\ PromiseAll(a, t) # "pending"
    /\ reloads' = RemoveAt(reloads, i)
    /\ dom' = reloadResume(dom, reloads[i], currentTimeRange, a, t)
    /\ IF PromiseAll(a, t) = "fulfilled"
         THEN /\ lastArgs' = [lastArgs EXCEPT !.artists = <<a.data.artists>>,
                                              !.tracks = <<t.data.tracks>>]
              /\ lastReload' = [timeRange |-> reloads[i],
                                selected  |-> currentTimeRange,
                                over      |-> lastReload.timeRange,
                                artists   |-> a.data.artists,
                                tracks    |-> t.data.tracks]
              /\ UNCHANGED console
         ELSE /\ console' = [text |-> "Error recargando por tiempo:",
                             err  |-> IF a.state = "failed" THEN a.err ELSE t.err]
              /\ UNCHANGED <<lastArgs, lastReload>>
    /\ UNCHANGED <<currentTimeRange, genreChart, charts, loadPc, loadLog, recInFlight,
                   recStarted, now, timers, refreshClicks, currentAudio, audios,
                   reloadsStarted>>

\* the promise apiFetch(url) returns once fetch has settled
Promise(url, settled) ==
    LET r == apiFetch(url, settled)
    IN  [state |-> IF r.ok THEN "ok" ELSE "failed", data |-> r.data, err |-> r.err]

\* both fetches of call i succeed
ReloadFulfils(i, artists, tracks) ==
    /\ i \in 1..Len(reloads)
    /\ ReloadSettles(i, Promise(ArtistsUrl(reloads[i]), Response(200, [artists |-> artists])),
                        Promise(TracksUrl(reloads[i]), Response(200, [tracks |-> tracks])))

\* the artists fetch of call i fails first; other is the tracks promise then
ReloadArtistsFail(i, f, other) ==
    /\ i \in 1..Len(reloads)
    /\ ReloadSettles(i, Promise(ArtistsUrl(reloads[i]), f), other)

\* the tracks fetch of call i fails first; other is the artists promise then
ReloadTracksFail(i, f, other) ==
    /\ i \in 1..Len(reloads)
    /\ ReloadSettles(i, other, Promise(TracksUrl(reloads[i]), f))

----------------------------------------------------------------------------
(* Preview playback                                                         *)

\* new Audio(url), played at volume 0.5 from button btn of the grid
NewAudio(url, btn) ==
    [url |-> url, paused |-> FALSE, volume |-> "0.5", btn |-> btn, attached |-> TRUE]

\* the preview buttons of the grid: the cards with a preview_url
Buttons(d) ==
    IF d.recommendationsGrid.kind # "cards" THEN {}
    ELSE {b \in 1..Len(d.recommendationsGrid.cards) :
             d.recommendationsGrid.cards[b].preview # Null}

\* the click listener of button b, on st = [dom, currentAudio, audios]
previewClick(st, b) ==
    LET url     == st.dom.recommendationsGrid.cards[b].preview
        playing == st.currentAudio # 0 /\ ~st.audios[st.currentAudio].paused
        \* currentAudio.pause(); remove 'playing' from every button
        paused  == IF playing
                     THEN [st EXCEPT !.audios[st.currentAudio].paused = TRUE,
                                     !.dom.playing = {}]
                     ELSE st
    IN  IF playing /\ st.audios[st.currentAudio].url = url
          THEN [paused EXCEPT !.currentAudio = 0]
          ELSE [paused EXCEPT !.audios = Append(@, NewAudio(url, b)),
                              !.currentAudio = Len(paused.audios) + 1,
                              !.dom.playing = @ \cup {b}]

\* a click on preview button b of the grid
PreviewClick(b) ==
    /\ b \in Buttons(dom)
    /\ LET st == previewClick([dom |-> dom, currentAudio |-> currentAudio,
                               audios |-> audios], b)
       IN  /\ Len(st.audios) <= MaxAudios
           /\ dom' = st.dom
           /\ currentAudio' = st.currentAudio
           /\ audios' = st.audios
    /\ lastArgs' = [lastArgs EXCEPT !.click = b]
    /\ UNCHANGED <<currentTimeRange, genreChart, charts, loadPc, loadLog, reloads, reloadsStarted,
                   recInFlight, recStarted, console, now, timers, refreshClicks,
                   lastReload>>

\* Audio a plays to its end: it becomes paused and its onended runs
AudioEnded(a) ==
    /\ a \in 1..Len(audios)
    /\ ~audios[a].paused
    /\ audios' = [audios EXCEPT ![a].paused = TRUE]
    /\ dom' = IF audios[a].attached
                THEN [dom EXCEPT !.playing = @ \ {audios[a].btn}] ELSE dom
    /\ UNCHANGED <<currentTimeRange, genreChart, charts, loadPc, loadLog, reloads, reloadsStarted,
                   recInFlight, recStarted, console, now, timers, refreshClicks,
                   currentAudio, lastArgs, lastReload>>

----------------------------------------------------------------------------
(* The page                                                                 *)

Next ==
    \/ \E s \in Summaries : SummarySettles(Response(200, s))
    \/ \E f \in Failures : SummarySettles(f)
    \/ \E r \in Ranges : TimeBtnClick(r)
    \/ \E i \in 1..MaxReloads, a \in ArtistLists, t \in TrackLists : ReloadFulfils(i, a, t)
    \/ \E i \in 1..MaxReloads, f \in Failures :
          \/ ReloadArtistsFail(i, f, StillPending)
          \/ \E t \in TrackLists : ReloadArtistsFail(i, f, Fulfilled([tracks |-> t]))
    \/ \E i \in 1..MaxReloads, f \in Failures :
          \/ ReloadTracksFail(i, f, StillPending)
          \/ \E a \in ArtistLists : ReloadTracksFail(i, f, Fulfilled([artists |-> a]))
    \/ \E data \in RecData : RecFetchSettles(Response(200, data))
    \/ \E f \in Failures : RecFetchSettles(f)
    \/ RefreshClick
    \/ \E i \in 1..MaxRecLoads : TimerFires(i)
    \/ Tick
    \/ \E b \in Buttons(dom) : PreviewClick(b)
    \/ \E a \in 1..MaxAudios : AudioEnded(a)

Spec == Init /\ [][Next]_vars

\* the initial load, the recommendations loads and the refresh button
NextLoad ==
    \/ \E s \in Summaries : SummarySettles(Response(200, s))
    \/ \E f \in Failures : SummarySettles(f)
    \/ \E data \in RecData : RecFetchSettles(Response(200, data))
    \/ \E f \in Failures : RecFetchSettles(f)
    \/ RefreshClick
    \/ \E i \in 1..MaxRecLoads : TimerFires(i)
    \/ Tick

SpecLoad == Init /\ [][NextLoad]_vars

\* the initial load and the time-range reloads
NextReload ==
    \/ \E s \in Summaries : SummarySettles(Response(200, s))
    \/ \E f \in Failures : SummarySettles(f)
    \/ \E r \in Ranges : TimeBtnClick(r)
    \/ \E i \in 1..MaxReloads, a \in ArtistLists, t \in TrackLists : ReloadFulfils(i, a, t)
    \/ \E i \in 1..MaxReloads, f \in Failures :
          \/ ReloadArtistsFail(i, f, StillPending)
          \/ \E t \in TrackLists : ReloadArtistsFail(i, f, Fulfilled([tracks |-> t]))
    \/ \E i \in 1..MaxReloads, f \in Failures :
          \/ ReloadTracksFail(i, f, StillPending)
          \/ \E a \in ArtistLists : ReloadTracksFail(i, f, Fulfilled([artists |-> a]))

SpecReload == Init /\ [][NextReload]_vars

\* the recommendations grid and its preview buttons
NextPreview ==
    \/ \E s \in Summaries : SummarySettles(Response(200, s))
    \/ \E data \in RecData : RecFetchSettles(Response(200, data))
    \/ \E f \in Failures : RecFetchSettles(f)
    \/ RefreshClick
    \/ \E b \in Buttons(dom) : PreviewClick(b)
    \/ \E a \in 1..MaxAudios : AudioEnded(a)

SpecPreview == Init /\ [][NextPreview]_vars

----------------------------------------------------------------------------
(* The renderers on their own: any sequence of calls, any arguments         *)

CallRenderTopArtists(artists) ==
    /\ dom' = renderTopArtists(dom, artists)
    /\ lastArgs' = [lastArgs EXCEPT !.artists = <<artists>>]
    /\ UNCHANGED <<currentTimeRange, genreChart, charts, loadPc, loadLog, reloads,
                   reloadsStarted, recInFlight, recStarted, console, now, timers,
                   refreshClicks, currentAudio, audios, lastReload>>

CallRenderTopTracks(tracks) ==
    /\ dom' = renderTopTracks(dom, tracks)
    /\ lastArgs' = [lastArgs EXCEPT !.tracks = <<tracks>>]
    /\ UNCHANGED <<currentTimeRange, genreChart, charts, loadPc, loadLog, reloads,
                   reloadsStarted, recInFlight, recStarted, console, now, timers,
                   refreshClicks, currentAudio, audios, lastReload>>

CallRenderGenres(entries) ==
    /\ LET g == renderGenres(dom, genreChart, charts, entries)
       IN  /\ Len(g.charts) <= MaxCharts
           /\ dom' = g.dom
           /\ genreChart' = g.genreChart
           /\ charts' = g.charts
    /\ lastArgs' = [lastArgs EXCEPT !.genres = <<entries>>]
    /\ UNCHANGED <<currentTimeRange, loadPc, loadLog, reloads, reloadsStarted,
                   recInFlight, recStarted, console, now, timers, refreshClicks,
                   currentAudio, audios, lastReload>>

CallRenderRecentTracks(tracks) ==
    /\ dom' = renderRecentTracks(dom, tracks, now)
    /\ lastArgs' = [lastArgs EXCEPT !.recent = <<tracks, now>>]
    /\ UNCHANGED <<currentTimeRange, genreChart, charts, loadPc, loadLog, reloads,
                   reloadsStarted, recInFlight, recStarted, console, now, timers,
                   refreshClicks, currentAudio, audios, lastReload>>

CallRenderRecommendations(data) ==
    /\ LET rr == renderRecommendations(dom, currentAudio, audios, data)
       IN  /\ dom' = rr.dom
           /\ currentAudio' = rr.currentAudio
           /\ audios' = rr.audios
    /\ lastArgs' = [lastArgs EXCEPT !.recs = <<data>>]
    /\ UNCHANGED <<currentTimeRange, genreChart, charts, loadPc, loadLog, reloads,
                   reloadsStarted, recInFlight, recStarted, console, now, timers,
                   refreshClicks, lastReload>>

NextRender ==
    \/ \E a \in ArtistLists : CallRenderTopArtists(a)
    \/ \E t \in TrackLists : CallRenderTopTracks(t)
    \/ \E g \in GenreInputs : CallRenderGenres(g)
    \/ \E t \in RecentLists : CallRenderRecentTracks(t)
    \/ \E data \in RecData : CallRenderRecommendations(data)

SpecRender == Init /\ [][NextRender]_vars

----------------------------------------------------------------------------
(* Chart instances                                                          *)

LiveCharts == {i \in 1..Len(charts) : charts[i].alive}

\* C6: after any sequence of renderGenres calls at most one Chart instance is
\* alive: every instance but the newest has been destroyed, genreChart refers
\* to the only live one, and once a chart has been constructed (so also after
\* two calls with non-empty input) exactly one instance is alive.
OneChartAlive ==
    /\ Cardinality(LiveCharts) <= 1
    /\ \A i \in 1..Len(charts) : i < Len(charts) => ~charts[i].alive
    /\ genreChart = Len(charts)
    /\ Len(charts) >= 1 => LiveCharts = {genreChart}

\* two charts have been constructed, and an empty distribution rendered since
TwoChartsConstructed ==
    /\ Len(charts) = 2
    /\ ~charts[1].alive
    /\ charts[2].alive
    /\ lastArgs.genres = << << >> >>

----------------------------------------------------------------------------
(* Renders and the content of their regions                                 *)

\* the content the elements a renderer writes have after one call on the
\* page as served
FreshArtists(artists) == renderTopArtists(InitialDom, artists)
FreshTracks(tracks) == renderTopTracks(InitialDom, tracks)
FreshGenres(entries) == renderGenres(InitialDom, 0, << >>, entries)
FreshRecent(tracks, t) == renderRecentTracks(InitialDom, tracks, t)
FreshRecs(data) == renderRecommendations(InitialDom, 0, << >>, data).dom

\* what the live chart shows, << >> when no chart is alive
ChartContent(ch) == IF \E j \in 1..Len(ch) : ch[j].alive
                      THEN LET j == CHOOSE k \in 1..Len(ch) : ch[k].alive
                           IN  <<ch[j].labels, ch[j].data>>
                      ELSE << >>

\* C10: after any sequence of calls to a renderer, the content of every
\* element it writes is the content its last call's input gives on its own
\* (nothing of an earlier render survives), empty inputs included.
RenderReplacesRegion ==
    /\ lastArgs.artists # << >> =>
          /\ dom.artistsGrid = FreshArtists(lastArgs.artists[1]).artistsGrid
          /\ dom.statTopArtist = FreshArtists(lastArgs.artists[1]).statTopArtist
    /\ lastArgs.tracks # << >> =>
          /\ dom.tracksList = FreshTracks(lastArgs.tracks[1]).tracksList
          /\ dom.statTopTrack = FreshTracks(lastArgs.tracks[1]).statTopTrack
    /\ lastArgs.genres # << >> =>
          /\ dom.genresList = FreshGenres(lastArgs.genres[1]).dom.genresList
          /\ dom.statTopGenre = FreshGenres(lastArgs.genres[1]).dom.statTopGenre
          /\ ChartContent(charts) = ChartContent(FreshGenres(lastArgs.genres[1]).charts)
    /\ lastArgs.recent # << >> =>
          dom.recentList = FreshRecent(lastArgs.recent[1], lastArgs.recent[2]).recentList
    /\ lastArgs.recs # << >> =>
          /\ dom.recommendationsGrid = FreshRecs(lastArgs.recs[1]).recommendationsGrid
          /\ dom.profileDescription = FreshRecs(lastArgs.recs[1]).profileDescription

----------------------------------------------------------------------------
(* Preview playback                                                         *)

\* the Audio objects that are playing
Playing(au) == {a \in 1..Len(au) : ~au[a].paused}

\* those among them started from a button of the grid now rendered
PlayingInGrid(au) == {a \in Playing(au) : au[a].attached}

\* C1: within one rendered grid, a click on button b while the preview of
\* another button is playing pauses that preview and starts b's, whatever the
\* two preview URLs; a click on the button whose preview is playing pauses
\* it and leaves nothing playing; at most one preview of the grid plays.
PreviewMutualExclusion ==
    [][ /\ Cardinality(PlayingInGrid(audios)) <= 1
        /\ \A b \in Buttons(dom) :
              (PreviewClick(b) /\ PlayingInGrid(audios) # {}) =>
                  \A a \in PlayingInGrid(audios) :
                      /\ audios'[a].paused
                      /\ IF audios[a].btn = b
                           THEN PlayingInGrid(audios') = {}
                           ELSE \E n \in PlayingInGrid(audios') : audios'[n].btn = b
      ]_vars

\* C2: after any interleaving of preview clicks, playback endings and
\* re-renders of the recommendations, at most one preview audio is playing in
\* the page.
SinglePlayingPreview == Cardinality(Playing(audios)) <= 1

----------------------------------------------------------------------------
(* Initial load                                                             *)

\* the regions only loadDashboard's renderers write are as served
NothingRendered ==
    /\ loadLog = << >>
    /\ charts = << >>
    /\ genreChart = 0
    /\ \A f \in {"greeting", "userAvatar", "profileAvatar", "profileName", "profileMeta",
                  "profilePlan", "profileCountry", "statFollowers", "statTopGenre",
                  "genresList", "recentList"} : dom[f] = InitialDom[f]

\* the error apiFetch(url) throws when fetch settles with the failure f
Thrown(f, url) ==
    IF f.kind = "rejected" THEN FetchTypeError
    ELSE IF ~(f.status >= 200 /\ f.status <= 299) THEN HttpError(f.status, url)
    ELSE JsonSyntaxError

\* C3 as claimed: when the summary fetch fails (non-success status or
\* transport failure) the loading screen shows an error message carrying the
\* status and the URL plus a link to "/", the dashboard stays hidden, no
\* renderer has run and no recommendations fetch was issued by the load.
LoadFailureShowsStatusAndUrl ==
    (loadPc = "error" /\ dom.loadingScreen.err # JsonSyntaxError) =>
        /\ dom.loadingScreen.kind = "error"
        /\ dom.loadingScreen.link = "/"
        /\ ~(dom.loadingScreen.err.status >= 200 /\ dom.loadingScreen.err.status <= 299)
        /\ dom.loadingScreen.err.status # 0
        /\ dom.loadingScreen.err.url = SummaryUrl
        /\ dom.dashboardDisplay = "none"
        /\ NothingRendered

\* C3, amended: when the summary fetch fails, loadDashboard ends in a terminal
\* error state: the loading screen shows the error's message (the status and
\* the URL after a non-success status, the runtime's own text after a
\* transport failure or a body that is not JSON) plus a link to "/", the
\* dashboard stays hidden for ever, loadDashboard runs no renderer and issues
\* no recommendations fetch.
LoadFailureIsTerminal ==
    /\ [](loadPc = "error" =>
            /\ dom.loadingScreen.kind = "error"
            /\ dom.loadingScreen.link = "/"
            /\ dom.loadingScreen.err \in {Thrown(f, SummaryUrl) : f \in Failures}
            /\ dom.dashboardDisplay = "none"
            /\ dom.loadingDisplay = "flex"
            /\ NothingRendered)
    /\ [][ /\ \A f \in Failures :
                 SummarySettles(f) =>
                     /\ loadPc' = "error"
                     /\ dom'.loadingScreen.err = Thrown(f, SummaryUrl)
                     /\ recStarted' = recStarted
           /\ loadPc = "error" =>
                 /\ loadPc' = "error"
                 /\ dom'.loadingScreen = dom.loadingScreen
                 /\ (recStarted' # recStarted => RefreshClick)
       ]_vars

\* the summary fetch was rejected, and time has passed since
LoadFailedOnTransport ==
    /\ loadPc = "error"
    /\ dom.loadingScreen.err = FetchTypeError
    /\ now > 0

Renderers == {"renderProfile", "renderStats", "renderTopArtists", "renderTopTracks",
              "renderGenres", "renderRecentTracks"}

\* C9: on a successful initial load all six renderers run, then the loading
\* indicator is hidden and the dashboard shown, and only then is the
\* recommendations fetch issued; the dashboard is visible whatever becomes of
\* that fetch, and its failure never brings back the loading or error screen.
InitialLoadOrder ==
    /\ [](loadPc = "loaded" =>
            /\ \E h, r \in 1..Len(loadLog) :
                  /\ loadLog[h].call = "setLoading(false)"
                  /\ loadLog[r].call = "loadRecommendations"
                  /\ h < r
                  /\ loadLog[r].dashboardDisplay = "block"
                  /\ \A w \in Renderers : \E i \in 1..(h - 1) : loadLog[i].call = w
                  /\ \A i \in 1..Len(loadLog) :
                        loadLog[i].call = "loadRecommendations" => i > h
            /\ recStarted >= 1
            /\ dom.dashboardDisplay = "block"
            /\ dom.loadingDisplay = "none"
            /\ dom.loadingScreen.kind = "markup")
    /\ [][ /\ loadPc = "loaded" => loadPc' = "loaded"
           /\ \A f \in Failures :
                 RecFetchSettles(f) =>
                     /\ loadPc' = loadPc
                     /\ dom'.dashboardDisplay = dom.dashboardDisplay
                     /\ dom'.loadingDisplay = dom.loadingDisplay
                     /\ dom'.loadingScreen = dom.loadingScreen
       ]_vars

\* the dashboard is shown although the recommendations could not be loaded
DashboardShownDespiteRecFailure ==
    /\ loadPc = "loaded"
    /\ dom.recommendationsGrid.kind = "error"
    /\ dom.dashboardDisplay = "block"
    /\ recInFlight = 0

----------------------------------------------------------------------------
(* Recommendations load and refresh                                         *)

\* C7: every recommendations load first shows the spinner; when its fetch
\* settles the region shows the cards (non-empty list), the empty-state
\* message (empty list, never an empty grid) or the error message (failure);
\* once no load is in flight the spinner is gone; a failure changes nothing
\* outside the recommendations region.
RecommendationsLoadOutcome ==
    /\ []((recInFlight = 0 /\ recStarted > 0) =>
              dom.recommendationsGrid.kind \in {"cards", "empty", "error"})
    /\ [](dom.recommendationsGrid.kind = "cards" => dom.recommendationsGrid.cards # << >>)
    /\ [][ /\ recStarted' > recStarted => dom'.recommendationsGrid = Spinner
           /\ \A data \in RecData :
                 RecFetchSettles(Response(200, data)) =>
                     dom'.recommendationsGrid =
                         IF Len(data.recommendations) = 0 THEN EmptyState
                         ELSE [kind  |-> "cards",
                               cards |-> [i \in 1..Len(data.recommendations) |->
                                             RecCard(data.recommendations[i])],
                               err   |-> NoErr]
           /\ \A f \in Failures :
                 RecFetchSettles(f) =>
                     /\ dom'.recommendationsGrid.kind = "error"
                     /\ dom'.recommendationsGrid.err = Thrown(f, RecommendationsUrl)
                     /\ [dom' EXCEPT !.recommendationsGrid = dom.recommendationsGrid,
                                     !.playing = dom.playing] = dom
                     /\ UNCHANGED <<currentTimeRange, genreChart, charts, loadPc, console,
                                    currentAudio, timers>>
       ]_vars

\* two loads overlapped and the last to settle brought an empty list
EmptyStateAfterTwoLoads ==
    /\ recStarted >= 2
    /\ recInFlight = 0
    /\ dom.recommendationsGrid = EmptyState

\* C8: a click on the enabled refresh button starts exactly one
\* recommendations load and disables the button; the button stays disabled
\* until the cooldown timer fires, whether or not the fetch has settled, and
\* is then enabled again; two refresh loads are at least a cooldown apart.
RefreshCooldown ==
    /\ [](/\ Len(timers) <= 1
          /\ dom.refreshDisabled <=> timers # << >>
          /\ timers # << >> => timers[1] = refreshClicks[Len(refreshClicks)] + Cooldown
          /\ \A i, j \in 1..Len(refreshClicks) :
                i < j => refreshClicks[j] - refreshClicks[i] >= Cooldown)
    /\ [][ /\ RefreshClick =>
                 /\ dom'.refreshDisabled
                 /\ recStarted' = recStarted + 1
                 /\ recInFlight' = recInFlight + 1
           /\ (dom.refreshDisabled /\ ~dom'.refreshDisabled) =>
                 (timers' = << >> /\ now >= timers[1])
           /\ recInFlight' < recInFlight => dom'.refreshDisabled = dom.refreshDisabled
           /\ Len(refreshClicks') > Len(refreshClicks) => ~dom.refreshDisabled
       ]_vars

\* a second refresh, made once the cooldown of the first was over, while the
\* first load's fetch is still pending
SecondRefreshAfterCooldown ==
    /\ Len(refreshClicks) = 2
    /\ dom.refreshDisabled
    /\ recInFlight = 3

----------------------------------------------------------------------------
(* Time-range reload                                                        *)

\* everything but the widgets of the artists and of the tracks
OutsideTopWidgets(d) ==
    [d EXCEPT !.artistsGrid = << >>, !.statTopArtist = "", !.tracksList = << >>,
              !.statTopTrack = ""]

\* Promise.all of pending call i rejects because one fetch failed with f, the
\* other being pending or fulfilled by then
ReloadRejects(i, f) ==
    \/ ReloadArtistsFail(i, f, StillPending)
    \/ ReloadTracksFail(i, f, StillPending)
    \/ \E t \in TrackLists : ReloadArtistsFail(i, f, Fulfilled([tracks |-> t]))
    \/ \E a \in ArtistLists : ReloadTracksFail(i, f, Fulfilled([artists |-> a]))

\* C4: reloadWithTimeRange renders the artists and the tracks widgets only
\* once both fetches have succeeded; when either fails neither widget is
\* rendered, both keep their content, the error is only logged and nothing
\* else on the page changes.
ReloadAllOrNothing ==
    [][ /\ \A i \in 1..Len(reloads), f \in Failures :
              ReloadRejects(i, f) =>
                 /\ dom' = dom
                 /\ console'.text = "Error recargando por tiempo:"
                 /\ console'.err \in {Thrown(f, ArtistsUrl(reloads[i])),
                                       Thrown(f, TracksUrl(reloads[i]))}
                 /\ UNCHANGED <<currentTimeRange, genreChart, charts, loadPc, recInFlight,
                                audios, currentAudio, timers>>
        /\ \A i \in 1..Len(reloads), a \in ArtistLists, t \in TrackLists :
              ReloadFulfils(i, a, t) =>
                  /\ dom'.artistsGrid = [k \in 1..Len(a) |-> ArtistCard(a[k], k)]
                  /\ dom'.tracksList = [k \in 1..Len(t) |-> TrackItem(t[k], k)]
                  /\ OutsideTopWidgets(dom') = OutsideTopWidgets(dom)
        /\ (loadPc' = loadPc /\ dom'.artistsGrid # dom.artistsGrid) =>
              \E i \in 1..Len(reloads), a \in ArtistLists, t \in TrackLists :
                  ReloadFulfils(i, a, t)
        /\ (loadPc' = loadPc /\ dom'.tracksList # dom.tracksList) =>
              \E i \in 1..Len(reloads), a \in ArtistLists, t \in TrackLists :
                  ReloadFulfils(i, a, t)
      ]_vars

\* a reload whose tracks fetch failed after its artists fetch had succeeded:
\* the widgets still show what the summary brought
ReloadFailedWidgetsKept ==
    /\ loadPc = "loaded"
    /\ reloadsStarted >= 1
    /\ reloads = << >>
    /\ lastReload = NoReload
    /\ console.text = "Error recargando por tiempo:"
    /\ console.err.url = TracksUrl(currentTimeRange)
    /\ dom.artistsGrid = FreshArtists(SummaryA.top_artists).artistsGrid
    /\ dom.tracksList = FreshTracks(SummaryA.top_tracks).tracksList

\* C5: overlapping reloads are last-resolved-wins: a call whose fetches
\* resolve renders its data whether or not its range is still the selected
\* one, while currentTimeRange and the active button follow the last click;
\* so a superseded call that resolves last leaves its range's data on screen.
ReloadLastResolvedWins ==
    /\ [](reloadsStarted > 0 => dom.activeTimeBtn = currentTimeRange)
    /\ [][ \A i \in 1..Len(reloads), a \in ArtistLists, t \in TrackLists :
              ReloadFulfils(i, a, t) =>
                  /\ dom'.artistsGrid = [k \in 1..Len(a) |-> ArtistCard(a[k], k)]
                  /\ dom'.tracksList = [k \in 1..Len(t) |-> TrackItem(t[k], k)]
                  /\ currentTimeRange' = currentTimeRange
                  /\ dom'.activeTimeBtn = dom.activeTimeBtn
       ]_vars

\* range R1 was requested, then R2; R2's data was rendered, then R1's over it:
\* the widgets show R1's data while the selector and the button say R2
StaleReloadShown ==
    /\ loadPc = "loaded"
    /\ reloadsStarted = 2
    /\ reloads = << >>
    /\ lastReload.timeRange # lastReload.selected
    /\ lastReload.over = lastReload.selected
    /\ currentTimeRange = lastReload.selected
    /\ dom.activeTimeBtn = currentTimeRange
    /\ lastReload.artists # << >>
    /\ dom.artistsGrid = FreshArtists(lastReload.artists).artistsGrid
    /\ dom.tracksList = FreshTracks(lastReload.tracks).tracksList

====
